---- MODULE Spec2Model ----
(***************************************************************************)
(* Model of compliance_suite/cli.py of the RNAGet compliance suite:        *)
(*   scan_for_errors        -- the high-level summary rollup               *)
(*   report / test_report   -- the command line entry point                *)
(*   convert_report_format  -- raw result tree -> ga4gh testbed Report     *)
(* Python dicts that are iterated are modelled as sequences of entries in  *)
(* insertion order; timestamps are readings of a logical clock that ticks  *)
(* at every set_*_time_now call.                                           *)
(***************************************************************************)
EXTENDS Integers, Sequences, FiniteSets, TLC

VARIABLES
    json,                \* the raw result tree handed to scan / convert
    json_in,             \* history: the tree as it was handed in
    pc,                  \* position of the running function
    high_level_summary,  \* scan_for_errors: the local dict
    s_type, s_obj,       \* scan_for_errors: obj_type / obj_id loop positions
    reports,             \* every Report() object created so far, in creation order
    c_type, c_pos,       \* convert_report_format: obj_type loop / inner loops position
    clock,               \* logical clock read by set_*_time_now
    user_config, uptime, config_outcome, token,
    force, serve, no_tar, pretty,      \* report: the options and the configuration
    fs_in,               \* report: the paths that exist when the command starts
    fs,                  \* report: the paths that exist now
    exit_code,           \* report: the process's exit status
    called,              \* test_report: the functions it has called
    headers              \* test_report: the keys of tr.headers

vars == << json, json_in, pc, high_level_summary, s_type, s_obj,
           reports, c_type, c_pos, clock,
           user_config, uptime, config_outcome, token,
           force, serve, no_tar, pretty, fs_in, fs,
           exit_code, called, headers >>

scanVars    == << high_level_summary, s_type, s_obj >>
convertVars == << reports, c_type, c_pos, clock >>
inputVars   == << user_config, uptime, config_outcome, token,
                  force, serve, no_tar, pretty, fs_in >>
cliVars     == << inputVars, fs, exit_code, called, headers >>

-----------------------------------------------------------------------------
(* Bounds *)

\* object instances in one raw result tree, over all object types
MaxObjects == 2
\* calls of convert_report_format on the same tree
MaxCalls == 2
\* object instances in the tree a test run of the report command produces
MaxRunObjects == 1

-----------------------------------------------------------------------------
(* Python helpers *)

Range(s) == { s[i] : i \in 1..Len(s) }

\* x in list
InList(x, s) == \E i \in 1..Len(s) : s[i] = x

EmptyDict == [k \in {} |-> 0]

\* d[k] = v
DictSet(d, k, v) == [x \in DOMAIN d \cup {k} |-> IF x = k THEN v ELSE d[x]]

\* the value of a timestamp no set_*_time_now call has set
Unset == -1

-----------------------------------------------------------------------------
(* The raw result tree *)

\* every object type a tree has a "test_results" entry for
ALL_OBJ_TYPES == << "projects", "studies", "expressions", "continuous" >>

CaseRecord(n, s, a) ==
    [ name |-> n, description |-> "about " \o n, summary |-> "summary of " \o n,
      status |-> s, audit |-> a ]

CasePass    == CaseRecord("status_code", 1, << "GET /projects/1", "200" >>)
CaseFail    == CaseRecord("status_code", -1, << "GET /projects/9", "404" >>)
CaseSkip    == CaseRecord("schema", 0, << >>)
CaseUnknown == CaseRecord("content_type", 2, << "no response" >>)
\* a status code outside {-1, 0, 1, 2}
CaseBad     == CaseRecord("schema", 3, << "status 3" >>)

TestRecord(n, r, p, c) ==
    [ name |-> n, description |-> "about " \o n, text |-> "text of " \o n,
      result |-> r, parents |-> p,
      message |-> [ api_component |-> [ cases |-> c ] ] ]

TestPass      == TestRecord("project_get", 1, << "project_get" >>, << CasePass >>)
TestFail      == TestRecord("project_get_not_found", -1, << "project_get", "p" >>,
                            << CaseFail, CaseSkip >>)
TestSkip      == TestRecord("project_filters", 0, << "x" >>, << CaseSkip >>)
TestUnknown   == TestRecord("project_search", 2, << "p" >>, << CaseUnknown, CaseBad >>)

\* one entry of json["test_results"][obj_type]: obj_id -> server_tests
ObjectPool ==
    { [ id |-> "43378a5d", tests |-> << TestFail, TestPass >> ],
      [ id |-> "123456789", tests |-> << TestSkip, TestUnknown >> ],
      [ id |-> "38n54mgt", tests |-> << >> ] }

\* dicts of at most n object ids, in every insertion order
ObjDicts(n) ==
    { s \in UNION { [1..k -> ObjectPool] : k \in 0..n } :
        \A i, j \in 1..Len(s) : i # j => s[i].id # s[j].id }

TreeOf(p, s, e, c) ==
    [ server_name |-> "Server A",
      base_url    |-> "http://localhost:5000/",
      test_results |-> [ projects |-> p, studies |-> s,
                         expressions |-> e, continuous |-> c ] ]

\* json is one of the trees holding at most n object instances
IsTree(j, n) ==
    \E p \in ObjDicts(n) : \E s \in ObjDicts(n - Len(p)) :
    \E e \in ObjDicts(n - Len(p) - Len(s)) :
    \E c \in ObjDicts(n - Len(p) - Len(s) - Len(e)) :
        j = TreeOf(p, s, e, c)

NoJson == TreeOf(<< >>, << >>, << >>, << >>)

HasSummary(j) == "high_level_summary" \in DOMAIN j

-----------------------------------------------------------------------------
(* scan_for_errors *)

\* available_tests = ('project_get') is a str: iterating it yields its characters
available_tests == << "p", "r", "o", "j", "e", "c", "t", "_", "g", "e", "t" >>

SCAN_OBJ_TYPES == << "projects", "studies", "expressions" >>

\* result = 1; for test in server_tests: if high_level_name in test["parents"]: <a
\* string literal>.  The body of the if is a bare string, so result is never changed.
RECURSIVE ScanTests(_, _, _, _)
ScanTests(server_tests, high_level_name, k, result) ==
    IF k > Len(server_tests) THEN result
    ELSE IF InList(high_level_name, server_tests[k].parents)
         THEN ScanTests(server_tests, high_level_name, k + 1, result)
         ELSE ScanTests(server_tests, high_level_name, k + 1, result)

\* for high_level_name in (available_tests): ... high_level_summary[name] = {...}
RECURSIVE ScanHighLevelNames(_, _, _)
ScanHighLevelNames(summary, server_tests, h) ==
    IF h > Len(available_tests) THEN summary
    ELSE LET high_level_name == available_tests[h]
             result == ScanTests(server_tests, high_level_name, 1, 1)
         IN ScanHighLevelNames(
                DictSet(summary, high_level_name,
                        [ result |-> result, name |-> high_level_name ]),
                server_tests, h + 1)

\* one pass of the obj_id loop body, the assignment to json included
ScanObjId ==
    /\ pc = "scan"
    /\ s_type <= Len(SCAN_OBJ_TYPES)
    /\ s_obj <= Len(json.test_results[SCAN_OBJ_TYPES[s_type]])
    /\ LET server_tests == json.test_results[SCAN_OBJ_TYPES[s_type]][s_obj].tests
           summary == ScanHighLevelNames(high_level_summary, server_tests, 1)
       IN /\ high_level_summary' = summary
          /\ json' = [ server_name |-> json.server_name,
                       base_url |-> json.base_url,
                       test_results |-> json.test_results,
                       high_level_summary |-> summary ]
    /\ s_obj' = s_obj + 1
    /\ UNCHANGED << json_in, pc, s_type, convertVars, cliVars >>

\* the obj_id loop of one obj_type is exhausted
ScanNextType ==
    /\ pc = "scan"
    /\ s_type <= Len(SCAN_OBJ_TYPES)
    /\ s_obj > Len(json.test_results[SCAN_OBJ_TYPES[s_type]])
    /\ s_type' = s_type + 1
    /\ s_obj' = 1
    /\ UNCHANGED << json, json_in, pc, high_level_summary, convertVars, cliVars >>

ScanReturn ==
    /\ pc = "scan"
    /\ s_type > Len(SCAN_OBJ_TYPES)
    /\ pc' = "scan_done"
    /\ UNCHANGED << json, json_in, scanVars, convertVars, cliVars >>

-----------------------------------------------------------------------------
(* convert_report_format *)

\* available_tests = ('project_get'), again a str
convert_available_tests == << "p", "r", "o", "j", "e", "c", "t", "_", "g", "e", "t" >>

CONVERT_OBJ_TYPES_short == << "projects", "studies", "expressions" >>

CONVERT_OBJ_TYPES == << "projects", "studies", "expressions", "continuous" >>

\* ga4gh_report, the local variable: the Report() created last
ga4gh_report == reports[Len(reports)]

\* the status a Case carries when no set_status_* call is made on it
CASE_STATUS_INITIAL == "INITIAL"

\* the if / elif chain on case["status"]; it has no else branch
CaseStatus(status) ==
    IF status = 1 THEN "PASS"
    ELSE IF status = 0 THEN "SKIP"
    ELSE IF status = -1 THEN "FAIL"
    ELSE IF status = 2 THEN "UNKNOWN"
    ELSE CASE_STATUS_INITIAL

\* for log_message in case["audit"]: ga4gh_case.add_log_message(log_message)
RECURSIVE AddLogMessages(_, _, _)
AddLogMessages(log_messages, audit, i) ==
    IF i > Len(audit) THEN log_messages
    ELSE AddLogMessages(Append(log_messages, audit[i]), audit, i + 1)

\* one pass of the case loop body; t is the clock reading of set_end_time_now
ConvertCase(case, t) ==
    [ case_name        |-> case.name,
      case_description |-> case.description,
      message          |-> case.summary,
      log_messages     |-> AddLogMessages(<< >>, case.audit, 1),
      status           |-> CaseStatus(case.status),
      end_time         |-> t ]

EmitsCases_unless_pass(test) == test.result # 1

\* if test["result"] != 0:
EmitsCases(test) == test.result # 0

\* the test ends before its cases are converted
ConvertTestRecord_end_first(test, origin, t0) ==
    LET cases == IF EmitsCases(test) THEN test.message.api_component.cases ELSE << >>
    IN [ test_name        |-> test.name,
         test_description |-> test.description,
         message          |-> test.text,
         cases    |-> [ j \in 1..Len(cases) |-> ConvertCase(cases[j], t0 + j) ],
         end_time |-> t0,
         origin   |-> origin ]

\* one pass of the test loop body: the Test with its Cases.  t0 is the clock on
\* entry; every set_end_time_now reads the clock and ticks it.  origin is history:
\* the TestRecord the Test was made from.
ConvertTestRecord(test, origin, t0) ==
    LET cases == IF EmitsCases(test) THEN test.message.api_component.cases ELSE << >>
    IN [ test_name        |-> test.name,
         test_description |-> test.description,
         message          |-> test.text,
         cases    |-> [ j \in 1..Len(cases) |-> ConvertCase(cases[j], t0 + j - 1) ],
         end_time |-> t0 + Len(cases),
         origin   |-> origin ]

\* the (high_level_name, test) pairs of one obj_id, in loop order
RECURSIVE HighLevelLoop(_, _, _)
HighLevelLoop(objs, o, h) ==
    IF h > Len(convert_available_tests) THEN << >>
    ELSE [ k \in 1..Len(objs[o].tests) |-> [ obj |-> o, hl |-> h, test |-> k ] ]
         \o HighLevelLoop(objs, o, h + 1)

\* the (obj_id, high_level_name, test) triples of one obj_type, in loop order
RECURSIVE ObjIdLoop(_, _)
ObjIdLoop(objs, o) ==
    IF o > Len(objs) THEN << >>
    ELSE HighLevelLoop(objs, o, 1) \o ObjIdLoop(objs, o + 1)

\* ga4gh_report = Report() with every attribute at its start value
NewReport ==
    [ testbed_name |-> "", platform_name |-> "", input_parameters |-> << >>,
      start_time |-> Unset, end_time |-> Unset, phases |-> << >>,
      finalized |-> FALSE ]

\* the report object of the previous call is used again
ConvertBegin_reused ==
    /\ pc = "call"
    /\ LET base == IF reports = << >> THEN NewReport
                   ELSE [ ga4gh_report EXCEPT !.finalized = FALSE ]
       IN reports' = Append(reports,
            [ base EXCEPT !.start_time = clock,
                          !.testbed_name = "rnaget-compliance-suite",
                          !.platform_name = json.server_name,
                          !.input_parameters =
                              << [ key |-> "base_url", value |-> json.base_url ] >> ])
    /\ clock' = clock + 1
    /\ c_type' = 1
    /\ c_pos' = 0
    /\ pc' = "phase"
    /\ UNCHANGED << json, json_in, scanVars, cliVars >>

\* lines 246-254: a new Report, its start time, names and input parameter
ConvertBegin ==
    /\ pc = "call"
    /\ reports' = Append(reports,
            [ NewReport EXCEPT !.start_time = clock,
                               !.testbed_name = "rnaget-compliance-suite",
                               !.platform_name = json.server_name,
                               !.input_parameters =
                                   << [ key |-> "base_url", value |-> json.base_url ] >> ])
    /\ clock' = clock + 1
    /\ c_type' = 1
    /\ c_pos' = 0
    /\ pc' = "phase"
    /\ UNCHANGED << json, json_in, scanVars, cliVars >>

\* add_phase, set_start_time_now, set_phase_name
OpenPhase ==
    /\ pc = "phase"
    /\ c_type <= Len(CONVERT_OBJ_TYPES)
    /\ reports' = [ reports EXCEPT ![Len(reports)].phases =
                      Append(@, [ phase_name |-> CONVERT_OBJ_TYPES[c_type],
                                  start_time |-> clock,
                                  end_time   |-> Unset,
                                  tests      |-> << >> ]) ]
    /\ clock' = clock + 1
    /\ c_pos' = 1
    /\ pc' = "tests"
    /\ UNCHANGED << json, json_in, c_type, scanVars, cliVars >>

\* one pass of the innermost (test) loop body
ConvertTest ==
    /\ pc = "tests"
    /\ LET obj_type == CONVERT_OBJ_TYPES[c_type]
           objs     == json.test_results[obj_type]
           loop     == ObjIdLoop(objs, 1)
       IN /\ c_pos <= Len(loop)
          /\ LET at         == loop[c_pos]
                 test       == objs[at.obj].tests[at.test]
                 origin     == [ obj_type |-> obj_type, obj |-> at.obj, test |-> at.test ]
                 ga4gh_test == ConvertTestRecord(test, origin, clock)
                 p          == Len(ga4gh_report.phases)
             IN /\ reports' = [ reports EXCEPT ![Len(reports)].phases[p].tests =
                                  Append(@, ga4gh_test) ]
                /\ clock' = ga4gh_test.end_time + 1
    /\ c_pos' = c_pos + 1
    /\ UNCHANGED << json, json_in, pc, c_type, scanVars, cliVars >>

\* the obj_id loop is exhausted: ga4gh_phase.set_end_time_now()
ClosePhase ==
    /\ pc = "tests"
    /\ c_pos > Len(ObjIdLoop(json.test_results[CONVERT_OBJ_TYPES[c_type]], 1))
    /\ reports' = [ reports EXCEPT
                      ![Len(reports)].phases[Len(ga4gh_report.phases)].end_time = clock ]
    /\ clock' = clock + 1
    /\ c_type' = c_type + 1
    /\ pc' = IF c_type + 1 > Len(CONVERT_OBJ_TYPES) THEN "end" ELSE "phase"
    /\ UNCHANGED << json, json_in, c_pos, scanVars, cliVars >>

\* ga4gh_report.set_end_time_now()
EndReport ==
    /\ pc = "end"
    /\ reports' = [ reports EXCEPT ![Len(reports)].end_time = clock ]
    /\ clock' = clock + 1
    /\ pc' = "finalize"
    /\ UNCHANGED << json, json_in, c_type, c_pos, scanVars, cliVars >>

\* ga4gh_report.finalize(); return ga4gh_report
Finalize ==
    /\ pc = "finalize"
    /\ reports' = [ reports EXCEPT ![Len(reports)].finalized = TRUE ]
    /\ pc' = "returned"
    /\ UNCHANGED << json, json_in, c_type, c_pos, clock, scanVars, cliVars >>

\* the caller converts the same tree once more
CallAgain ==
    /\ pc = "returned"
    /\ Len(reports) < MaxCalls
    /\ pc' = "call"
    /\ UNCHANGED << json, json_in, convertVars, scanVars, cliVars >>

-----------------------------------------------------------------------------
(* report and test_report *)

\* an uptime option value is a string, modelled as its sequence of characters;
\* "sup2" stands for the one character U+00B2 (superscript two)
UptimeValues ==
    { << "3", "6", "0", "0" >>, << "a", "b", "c" >>, << "-", "5" >>,
      << "sup2" >>, << >> }

\* the file systems the command can start in: the output directory and the archive
\* lie in the base directory
StartPaths ==
    { p \in SUBSET { "base_dir", "output_dir", "archive" } :
        "base_dir" \notin p => p = {} }

DecimalChars == { "0", "3", "5", "6" }

\* characters str.isdigit() accepts: the decimal digits and the other characters of
\* Unicode numeric type Digit, such as the superscript digits
DigitChars == DecimalChars \cup { "sup2" }

\* str.isdigit(): at least one character, and every character is a digit
IsDigit(s) == Len(s) > 0 /\ \A i \in 1..Len(s) : s[i] \in DigitChars

\* int(s) returns a value: an optional sign, then one or more decimal digits
IntParses(s) ==
    LET body == IF Len(s) > 0 /\ s[1] \in { "-", "+" } THEN Tail(s) ELSE s
    IN Len(body) > 0 /\ \A i \in 1..Len(body) : body[i] \in DecimalChars

\* the exit status while the process runs
NOT_EXITED == -1

\* sys.exit(1) of an except clause, or the interpreter's exit on an uncaught exception
ExitWith(code) ==
    /\ exit_code' = code
    /\ pc' = "exit"

\* lines 110-117; ArgumentException is handled at lines 202-206
CheckUserConfig ==
    /\ pc = "r_user_config"
    /\ IF ~user_config THEN ExitWith(1) ELSE pc' = "r_uptime" /\ UNCHANGED exit_code
    /\ UNCHANGED << json, json_in, scanVars, convertVars, inputVars, fs, called, headers >>

\* lines 120-121
CheckUptime ==
    /\ pc = "r_uptime"
    /\ IF ~IsDigit(uptime) THEN ExitWith(1) ELSE pc' = "r_config" /\ UNCHANGED exit_code
    /\ UNCHANGED << json, json_in, scanVars, convertVars, inputVars, fs, called, headers >>

\* lines 125-127; UserConfigException is handled at lines 207-211
ParseConfig ==
    /\ pc = "r_config"
    /\ IF config_outcome # "ok" THEN ExitWith(1)
       ELSE pc' = "r_base_dir" /\ UNCHANGED exit_code
    /\ UNCHANGED << json, json_in, scanVars, convertVars, inputVars, fs, called, headers >>

\* lines 130-141; FileNotFoundError is handled at lines 212-216
CheckBaseDir ==
    /\ pc = "r_base_dir"
    /\ IF "base_dir" \notin fs THEN ExitWith(1)
       ELSE pc' = "r_output_dir" /\ UNCHANGED exit_code
    /\ UNCHANGED << json, json_in, scanVars, convertVars, inputVars, fs, called, headers >>

\* lines 144-149
CheckOutputDir ==
    /\ pc = "r_output_dir"
    /\ IF ~force /\ ("output_dir" \in fs \/ "archive" \in fs) THEN ExitWith(1)
       ELSE pc' = "r_copy" /\ UNCHANGED exit_code
    /\ UNCHANGED << json, json_in, scanVars, convertVars, inputVars, fs, called, headers >>

\* lines 152-158: rmtree of the output directory under --force, then copytree
\* creates it with the web files
PrepareOutputDir ==
    /\ pc = "r_copy"
    /\ LET removed == IF force /\ "output_dir" \in fs
                      THEN fs \ { "output_dir", "results.json" } ELSE fs
       IN fs' = removed \cup { "output_dir" }
    /\ pc' = "t_run"
    /\ UNCHANGED << json, json_in, scanVars, convertVars, inputVars,
                    exit_code, called, headers >>

\* Runner(user_config.d).run_tests() and tr.generate_final_json(): the raw result
\* tree of the run, which carries no "high_level_summary" entry
RunnerFinalJson(j) == IsTree(j, MaxRunObjects)

\* test_report, lines 224-237, up to the call of convert_report_format
RunTests ==
    /\ pc = "t_run"
    /\ headers' = IF token THEN { "Authorization" } ELSE headers
    /\ RunnerFinalJson(json')
    /\ json_in' = json'
    /\ called' = called \cup { "run_tests", "generate_final_json",
                               "convert_report_format" }
    /\ pc' = "call"
    /\ UNCHANGED << scanVars, convertVars, inputVars, fs, exit_code >>

\* lines 164-172: results.json is written from the returned report
WriteResults ==
    /\ pc = "returned"
    /\ fs' = fs \cup { "results.json" }
    /\ pc' = "r_tar"
    /\ UNCHANGED << json, json_in, scanVars, convertVars, inputVars,
                    exit_code, called, headers >>

\* lines 175-183
MakeTar ==
    /\ pc = "r_tar"
    /\ fs' = IF ~no_tar THEN fs \cup { "archive" } ELSE fs
    /\ pc' = "r_serve"
    /\ UNCHANGED << json, json_in, scanVars, convertVars, inputVars,
                    exit_code, called, headers >>

\* lines 186-198: int(uptime) is evaluated only under --serve; a ValueError is caught
\* by no except clause and ends the interpreter with status 1
Serve ==
    /\ pc = "r_serve"
    /\ IF serve /\ ~IntParses(uptime) THEN ExitWith(1) ELSE ExitWith(0)
    /\ UNCHANGED << json, json_in, scanVars, convertVars, inputVars, fs, called, headers >>

-----------------------------------------------------------------------------
(* Initial values of the parts a specification does not exercise *)

ScanIdle    == high_level_summary = EmptyDict /\ s_type = 0 /\ s_obj = 0
ConvertIdle == reports = << >> /\ c_type = 0 /\ c_pos = 0 /\ clock = 0
CliIdle ==
    /\ user_config = TRUE /\ uptime = << "3", "6", "0", "0" >>
    /\ config_outcome = "ok" /\ token = FALSE
    /\ force = FALSE /\ serve = FALSE /\ no_tar = FALSE /\ pretty = FALSE
    /\ fs_in = { "base_dir" } /\ fs = fs_in
    /\ exit_code = NOT_EXITED /\ called = {} /\ headers = {}

\* scan_for_errors(json) is called on a raw result tree
InitScan ==
    /\ IsTree(json, MaxObjects)
    /\ json_in = json
    /\ pc = "scan"
    /\ high_level_summary = EmptyDict /\ s_type = 1 /\ s_obj = 1
    /\ ConvertIdle /\ CliIdle

NextScan == ScanObjId \/ ScanNextType \/ ScanReturn

SpecScan == InitScan /\ [][NextScan]_vars

\* convert_report_format(json) is called on a raw result tree
InitConvert ==
    /\ IsTree(json, MaxObjects)
    /\ json_in = json
    /\ pc = "call"
    /\ ScanIdle /\ ConvertIdle /\ CliIdle

NextConvert ==
    \/ ConvertBegin \/ OpenPhase \/ ConvertTest \/ ClosePhase \/ EndReport \/ Finalize
    \/ CallAgain

SpecConvert == InitConvert /\ [][NextConvert]_vars

\* the report command is started with some options, configuration and file system
InitReport ==
    /\ json = NoJson /\ json_in = NoJson
    /\ pc = "r_user_config"
    /\ ScanIdle /\ ConvertIdle
    /\ user_config \in BOOLEAN
    /\ uptime \in UptimeValues
    /\ config_outcome \in { "ok", "UserConfigException" }
    /\ token \in BOOLEAN
    /\ force \in BOOLEAN /\ serve \in BOOLEAN /\ no_tar \in BOOLEAN /\ pretty \in BOOLEAN
    /\ fs_in \in StartPaths
    /\ fs = fs_in
    /\ exit_code = NOT_EXITED /\ called = {} /\ headers = {}

NextReport ==
    \/ CheckUserConfig \/ CheckUptime \/ ParseConfig \/ CheckBaseDir \/ CheckOutputDir
    \/ PrepareOutputDir \/ RunTests
    \/ ConvertBegin \/ OpenPhase \/ ConvertTest \/ ClosePhase \/ EndReport \/ Finalize
    \/ WriteResults \/ MakeTar \/ Serve

SpecReport == InitReport /\ [][NextReport]_vars

-----------------------------------------------------------------------------
(* Reading the tree and the reports, for the properties below *)

\* every TestRecord of a tree, over all object types and object ids
TestsOf(j) ==
    UNION { UNION { Range(j.test_results[ty][o].tests) :
                        o \in 1..Len(j.test_results[ty]) } :
            ty \in Range(ALL_OBJ_TYPES) }

\* the TestRecord a Test of a report was made from
RecordOf(t) == json_in.test_results[t.origin.obj_type][t.origin.obj].tests[t.origin.test]

\* every Test of every report
ReportTests ==
    UNION { UNION { Range(reports[i].phases[p].tests) :
                        p \in 1..Len(reports[i].phases) } :
            i \in 1..Len(reports) }

\* the TestRecords of one object type: object id by object id, each id's in
\* execution order
RECURSIVE RecordsInOrder(_, _, _)
RecordsInOrder(obj_type, objs, o) ==
    IF o > Len(objs) THEN << >>
    ELSE [ k \in 1..Len(objs[o].tests) |->
             [ obj_type |-> obj_type, obj |-> o, test |-> k ] ]
         \o RecordsInOrder(obj_type, objs, o + 1)

\* a report without its timestamps
WithoutTimes(r) ==
    [ testbed_name |-> r.testbed_name, platform_name |-> r.platform_name,
      input_parameters |-> r.input_parameters, finalized |-> r.finalized,
      phases |-> [ p \in 1..Len(r.phases) |->
        [ phase_name |-> r.phases[p].phase_name,
          tests |-> [ k \in 1..Len(r.phases[p].tests) |->
            LET t == r.phases[p].tests[k]
            IN [ test_name |-> t.test_name, test_description |-> t.test_description,
                 message |-> t.message, origin |-> t.origin,
                 cases |-> [ c \in 1..Len(t.cases) |->
                   [ case_name |-> t.cases[c].case_name,
                     case_description |-> t.cases[c].case_description,
                     message |-> t.cases[c].message,
                     log_messages |-> t.cases[c].log_messages,
                     status |-> t.cases[c].status ] ] ] ] ] ] ]

\* the Cases of Test t are the CaseRecords of its TestRecord, one each, in order,
\* each with all its audit entries as log messages in order
CasesMirrorRecord(t) ==
    LET cases == RecordOf(t).message.api_component.cases
    IN /\ Len(t.cases) = Len(cases)
       /\ \A c \in 1..Len(cases) :
            /\ t.cases[c].case_name = cases[c].name
            /\ t.cases[c].case_description = cases[c].description
            /\ t.cases[c].message = cases[c].summary
            /\ t.cases[c].log_messages = cases[c].audit

-----------------------------------------------------------------------------
(* Properties *)

\* C1: after scan_for_errors, the summary status of every capability name found in
\* a parents list is the worst status (fail -1 > unknown 2 > skip 0 > pass 1) of
\* the TestRecords that name it; a capability with a failed member is never 1.
C1_RollupIsWorstStatus ==
    pc = "scan_done" =>
        \A c \in UNION { Range(t.parents) : t \in TestsOf(json) } :
            LET members == { t.result : t \in { u \in TestsOf(json) : InList(c, u.parents) } }
                worst == IF -1 \in members THEN -1
                         ELSE IF 2 \in members THEN 2
                         ELSE IF 0 \in members THEN 0 ELSE 1
            IN /\ HasSummary(json)
               /\ c \in DOMAIN json.high_level_summary
               /\ json.high_level_summary[c].result = worst
               /\ (-1 \in members => json.high_level_summary[c].result # 1)

\* C2: a status code outside {-1, 0, 1, 2} in the tree aborts the conversion: no
\* report of such a tree is finalized, and no Case is left at its initial status.
C2_InvalidStatusRejected ==
    LET valid == { -1, 0, 1, 2 }
        invalid == \E t \in TestsOf(json_in) :
                       \/ t.result \notin valid
                       \/ \E c \in Range(t.message.api_component.cases) :
                              c.status \notin valid
    IN invalid =>
        /\ \A i \in 1..Len(reports) : ~reports[i].finalized
        /\ \A t \in ReportTests : \A c \in Range(t.cases) : c.status # CASE_STATUS_INITIAL

\* C3: in a returned report each Phase holds exactly one Test per TestRecord of its
\* object type, in the order object id by object id and execution order within.
C3_OneTestPerRecordInOrder ==
    \A i \in 1..Len(reports) :
        reports[i].finalized =>
            \A p \in 1..Len(reports[i].phases) :
                LET phase == reports[i].phases[p]
                IN [ k \in 1..Len(phase.tests) |-> phase.tests[k].origin ]
                   = RecordsInOrder(phase.phase_name,
                                    json_in.test_results[phase.phase_name], 1)

\* C4 as claimed: a TestRecord of result pass (1) gives a Test without Cases, and a
\* TestRecord of any other result gives a Test with one Case per CaseRecord.
C4_CasesUnlessPass ==
    \A t \in ReportTests :
        IF RecordOf(t).result = 1 THEN t.cases = << >> ELSE CasesMirrorRecord(t)

\* C4 as amended: every Test made from a TestRecord of result skip (0) has no Cases,
\* and every Test made from a TestRecord of any other result (pass included) has
\* exactly one Case per CaseRecord, in order, each with all audit entries in order.
C4_CasesUnlessSkip ==
    \A t \in ReportTests :
        IF RecordOf(t).result = 0 THEN t.cases = << >> ELSE CasesMirrorRecord(t)

\* a returned report holds a Test without Cases made from a skipped TestRecord that
\* has a CaseRecord, and a Test with Cases made from a passed TestRecord
C4_Witness ==
    \E i \in 1..Len(reports) :
        /\ reports[i].finalized
        /\ \E p \in 1..Len(reports[i].phases) :
             \E t, u \in Range(reports[i].phases[p].tests) :
                /\ RecordOf(t).result = 0
                /\ RecordOf(t).message.api_component.cases # << >>
                /\ t.cases = << >>
                /\ RecordOf(u).result = 1
                /\ Len(u.cases) = 1
                /\ Len(u.cases[1].log_messages) = 2

\* C5: every returned report has exactly the four Phases projects, studies,
\* expressions, continuous, in this order.
C5_FourPhasesInOrder ==
    \A i \in 1..Len(reports) :
        reports[i].finalized =>
            [ p \in 1..Len(reports[i].phases) |-> reports[i].phases[p].phase_name ]
            = << "projects", "studies", "expressions", "continuous" >>

\* a returned report of a tree with tests under continuous only
C5_Witness ==
    \E i \in 1..Len(reports) :
        /\ reports[i].finalized
        /\ Len(reports[i].phases) = 4
        /\ \A p \in 1..3 : reports[i].phases[p].tests = << >>
        /\ json_in.test_results["projects"] = << >>
        /\ reports[i].phases[4].tests # << >>

\* C6: after scan_for_errors the summary has an entry for every capability name in
\* the parents list of a TestRecord, for every object type with an instance.
C6_SummaryEntryForEveryCapability ==
    pc = "scan_done" =>
        \A ty \in Range(ALL_OBJ_TYPES) :
            \A o \in 1..Len(json.test_results[ty]) :
                \A t \in Range(json.test_results[ty][o].tests) :
                    \A c \in Range(t.parents) :
                        HasSummary(json) /\ c \in DOMAIN json.high_level_summary

\* C7: with a setup error (no user config, an uptime that is no integer, a
\* configuration that fails to parse or validate, no base directory, an output
\* directory or archive that exists without --force) the test run is never
\* started and the process ends with exit code 1.
C7_SetupErrorsExitOneBeforeTests ==
    LET setup_error ==
            \/ ~user_config
            \/ ~IntParses(uptime)
            \/ config_outcome # "ok"
            \/ "base_dir" \notin fs_in
            \/ ~force /\ ("output_dir" \in fs_in \/ "archive" \in fs_in)
    IN setup_error =>
        /\ "run_tests" \notin called
        /\ (pc = "exit" => exit_code = 1)

\* C8: when test_report calls convert_report_format, scan_for_errors has been
\* applied to the tree, which carries the high-level summaries.
C8_AggregatedBeforeConversion ==
    (pc = "call" /\ "convert_report_format" \in called) =>
        /\ "scan_for_errors" \in called
        /\ HasSummary(json)

\* C9: two conversions of the same tree return reports that are equal but for
\* their timestamps, and the tree is as it was handed in.
C9_ConversionIdempotent ==
    /\ json = json_in
    /\ \A i, j \in 1..Len(reports) :
         (i < j /\ reports[i].finalized /\ reports[j].finalized) =>
             WithoutTimes(reports[i]) = WithoutTimes(reports[j])

\* two reports of one tree with Cases and log messages, with different timestamps
C9_Witness ==
    /\ Len(reports) >= 2
    /\ reports[1].finalized /\ reports[2].finalized
    /\ reports[1] # reports[2]
    /\ \E t \in ReportTests : \E c \in Range(t.cases) : Len(c.log_messages) = 2

\* the close events of a report are nested, and every phase is closed
CloseEventsNested(r) ==
    /\ \A p \in 1..Len(r.phases) :
         LET phase == r.phases[p]
         IN /\ phase.start_time # Unset
            /\ \A t \in Range(phase.tests) :
                 /\ t.end_time # Unset
                 /\ phase.start_time < t.end_time
                 /\ phase.end_time # Unset => t.end_time < phase.end_time
                 /\ \A c \in Range(t.cases) :
                      c.end_time # Unset /\ c.end_time < t.end_time
            /\ p < Len(r.phases) =>
                 /\ phase.end_time # Unset
                 /\ phase.end_time < r.phases[p + 1].start_time
    /\ r.end_time # Unset =>
         \A p \in 1..Len(r.phases) :
            r.phases[p].end_time # Unset /\ r.phases[p].end_time < r.end_time
    /\ r.finalized => r.end_time # Unset

\* C10: every Case is closed before its Test, every Test before its Phase, every
\* Phase before the next one is opened and before the Report; finalize comes after
\* the Report's end timestamp, and a finalized report never changes again.
C10_ClosesNestedFinalizeLast ==
    /\ [](\A i \in 1..Len(reports) : CloseEventsNested(reports[i]))
    /\ [][\A i \in 1..Len(reports) :
            reports[i].finalized =>
                (Len(reports') >= i /\ reports'[i] = reports[i])]_vars

\* a finalized report with a Test of two Cases and tests in two Phases, while a
\* second report is being built
C10_Witness ==
    /\ Len(reports) = 2
    /\ reports[1].finalized
    /\ ~reports[2].finalized
    /\ \E t \in Range(reports[1].phases[1].tests) : Len(t.cases) = 2
    /\ reports[1].phases[2].tests # << >>

====
